---------------------------- MODULE Spec2Model ----------------------------
(***************************************************************************)
(* A model of directory_audit: the audit script (directory_audit.py) and   *)
(* the remediation script (directory_audit_Step2.py).                      *)
(*                                                                         *)
(* A character is a one-character string, a name (one path component) is a *)
(* sequence of characters, an absolute path is the sequence of its names   *)
(* below the file-system root (the root itself is <<>>), and a string is   *)
(* the sequence of its characters.                                         *)
(***************************************************************************)
EXTENDS Naturals, Sequences, FiniteSets

VARIABLES
    \* base-directory inference (both scripts)
    paths, step2_base, audit_base,
    \* generate_hierarchical_structure (audit script)
    file_data, sorted_files, hierarchical_data, seen_dirs, file_no, depth, tree_pc,
    \* the persisted 'Path' column and extract_hyperlinks (remediation script)
    sheet, hyperlinks, link_pc,
    \* perform_actions (remediation script) and the world it acts on
    fs, cwd, BASE_DIRECTORY, folders_to_create, recycle_dir_path,
    row_no, row, original_path, status, action_logs, pc,
    \* the reconciliation of the target folders in main (remediation script)
    move_to_folders, folder_no, answers,
    \* list_files (audit script); its records go to file_data
    tree, exclude_folders, pending, walked, walk_pc

baseVars == <<paths, step2_base, audit_base>>
treeVars == <<file_data, sorted_files, hierarchical_data, seen_dirs, file_no, depth, tree_pc>>
linkVars == <<sheet, hyperlinks, link_pc>>
execVars == <<fs, cwd, BASE_DIRECTORY, folders_to_create, recycle_dir_path,
              row_no, row, original_path, status, action_logs, pc>>
recVars == <<move_to_folders, folder_no, answers>>
walkVars == <<tree, exclude_folders, pending, walked, walk_pc>>
vars == <<baseVars, treeVars, linkVars, execVars, recVars, walkVars>>

(***************************************************************************)
(* Bounds of the model.                                                    *)
(***************************************************************************)
MaxPaths == 2
MaxFiles == 3
MaxRows == 2
MaxTokens == 2
MaxFolders == 2
MaxWalkFiles == 3

(***************************************************************************)
(* Characters, names, paths.                                               *)
(***************************************************************************)
SEP == "/"

\* The code point order Python compares characters by.
Ord(c) ==
    CASE c = "\"" -> 34
      [] c = "-" -> 45
      [] c = "." -> 46
      [] c = "/" -> 47
      [] c = "a" -> 97
      [] c = "b" -> 98
      [] c = "c" -> 99
      [] c = "d" -> 100
      [] c = "e" -> 101
      [] c = "f" -> 102
      [] OTHER -> 120

\* str.startswith
StartsWith(s, t) == Len(t) <= Len(s) /\ SubSeq(s, 1, Len(t)) = t

\* str.endswith
EndsWith(s, t) == Len(t) <= Len(s) /\ SubSeq(s, Len(s) - Len(t) + 1, Len(s)) = t

\* str(path) of an absolute path: "/" for the root, else "/n1/n2/..."
RECURSIVE Str(_)
Str(p) ==
    IF p = <<>> THEN <<SEP>>
    ELSE IF Len(p) = 1 THEN <<SEP>> \o p[1]
    ELSE Str(SubSeq(p, 1, Len(p) - 1)) \o <<SEP>> \o p[Len(p)]

\* Path.parent (the root is its own parent)
Parent(p) == IF p = <<>> THEN <<>> ELSE SubSeq(p, 1, Len(p) - 1)

\* the component-wise relation "a is p or an ancestor of p"
IsPrefix(a, p) == Len(a) <= Len(p) /\ SubSeq(p, 1, Len(a)) = a

\* An optional string: None, or the string's characters.
NoText == [some |-> FALSE, text |-> <<>>]
Text(t) == [some |-> TRUE, text |-> t]

\* An optional path: None, or a path.
None == [some |-> FALSE, path |-> <<>>]
Some(p) == [some |-> TRUE, path |-> p]

(***************************************************************************)
(* The state of each part of the program while another part is checked.    *)
(***************************************************************************)
NotRun == [raised |-> "NotRun", value |-> None]

BaseIdle ==
    /\ paths = <<>>
    /\ step2_base = NotRun
    /\ audit_base = NotRun

TreeIdle ==
    /\ file_data = <<>>
    /\ sorted_files = <<>>
    /\ hierarchical_data = <<>>
    /\ seen_dirs = {}
    /\ file_no = 0
    /\ depth = 0
    /\ tree_pc = "idle"

\* a cell of the row that no token has read yet
Unread == [some |-> FALSE, text |-> <<"unread">>]
NoRow == [ExtractedPath |-> NoText, Action |-> <<>>, RenameAs |-> Unread, MoveTo |-> Unread]
NoPathObject == [abs |-> FALSE, parts |-> <<>>]

ExecIdle ==
    /\ fs = <<>>
    /\ cwd = <<>>
    /\ BASE_DIRECTORY = <<>>
    /\ folders_to_create = <<>>
    /\ recycle_dir_path = <<>>
    /\ row_no = 0
    /\ row = NoRow
    /\ original_path = NoPathObject
    /\ status = <<>>
    /\ action_logs = <<>>
    /\ pc = "idle"

LinkIdle ==
    /\ sheet = <<>>
    /\ hyperlinks = <<>>
    /\ link_pc = "idle"

RecIdle ==
    /\ move_to_folders = <<>>
    /\ folder_no = 0
    /\ answers = <<>>

WalkIdle ==
    /\ tree = <<>>
    /\ exclude_folders = {}
    /\ pending = <<>>
    /\ walked = <<>>
    /\ walk_pc = "idle"

(***************************************************************************)
(* Base-directory inference.                                               *)
(***************************************************************************)
\* the longest common prefix of two component sequences
RECURSIVE CommonPrefix(_, _)
CommonPrefix(p, q) ==
    IF p = <<>> \/ q = <<>> \/ p[1] # q[1] THEN <<>>
    ELSE <<p[1]>> \o CommonPrefix(Tail(p), Tail(q))

\* os.path.commonpath of a non-empty list of absolute paths
RECURSIVE commonpath(_)
commonpath(ps) ==
    IF Len(ps) = 1 THEN ps[1]
    ELSE CommonPrefix(ps[1], commonpath(Tail(ps)))

\* the list comprehension of extract_base_directory: the paths that are not
\* None (resolve() leaves a normalised absolute path as it is)
RECURSIVE NotNone(_)
NotNone(ps) ==
    IF ps = <<>> THEN <<>>
    ELSE IF ps[1].some THEN <<ps[1].path>> \o NotNone(Tail(ps))
    ELSE NotNone(Tail(ps))

\* extract_base_directory (remediation script)
extract_base_directory(ps) ==
    LET absolute_paths == NotNone(ps)
    IN  IF absolute_paths = <<>> THEN None
        ELSE Some(commonpath(absolute_paths))

\* the while loop of find_common_base_directory for one path: climbs from
\* common_base until str(path) starts with str(common_base); `returned` is
\* the early return at the file-system root
RECURSIVE ClimbBase(_, _)
ClimbBase(path, common_base) ==
    IF StartsWith(Str(path), Str(common_base))
    THEN [returned |-> FALSE, base |-> common_base]
    ELSE LET up == Parent(common_base)
         IN  IF up = <<>> THEN [returned |-> TRUE, base |-> up]
             ELSE ClimbBase(path, up)

\* the for loop of find_common_base_directory
RECURSIVE ClimbAll(_, _)
ClimbAll(ps, common_base) ==
    IF ps = <<>> THEN common_base
    ELSE LET r == ClimbBase(ps[1], common_base)
         IN  IF r.returned THEN r.base ELSE ClimbAll(Tail(ps), r.base)

\* find_common_base_directory (audit script); paths[0] of an empty list
\* raises IndexError
find_common_base_directory(file_paths) ==
    IF file_paths = <<>> THEN [raised |-> "IndexError", value |-> None]
    ELSE [raised |-> "", value |-> Some(ClimbAll(file_paths, Parent(file_paths[1])))]

(***************************************************************************)
(* The audit tree builder, generate_hierarchical_structure.                *)
(***************************************************************************)
\* Python's order of two strings: by code point, a proper prefix first
RECURSIVE StrLess(_, _)
StrLess(s, t) ==
    IF t = <<>> THEN FALSE
    ELSE IF s = <<>> THEN TRUE
    ELSE IF s[1] = t[1] THEN StrLess(Tail(s), Tail(t))
    ELSE Ord(s[1]) < Ord(t[1])

\* Python's order of two tuples of strings (Path.parts)
RECURSIVE PartsLess(_, _)
PartsLess(p, q) ==
    IF q = <<>> THEN FALSE
    ELSE IF p = <<>> THEN TRUE
    ELSE IF p[1] = q[1] THEN PartsLess(Tail(p), Tail(q))
    ELSE StrLess(p[1], q[1])

\* the sort key of a record: Path(x['File Path']).parts
SortKeyLess(x, y) == PartsLess(x, y)

RECURSIVE InsertSorted(_, _)
InsertSorted(s, x) ==
    IF s = <<>> THEN <<x>>
    ELSE IF SortKeyLess(x, s[1]) THEN <<x>> \o s
    ELSE <<s[1]>> \o InsertSorted(Tail(s), x)

\* sorted(file_data, key=...): ascending and stable
RECURSIVE sorted(_)
sorted(s) ==
    IF s = <<>> THEN <<>>
    ELSE InsertSorted(sorted(SubSeq(s, 1, Len(s) - 1)), s[Len(s)])

\* the directory the audit runs on
dir_path == <<<<"w">>>>

\* file_path.relative_to(dir_path).parts
RelativeParts(file_path) == SubSeq(file_path, Len(dir_path) + 1, Len(file_path))

\* the text of =HYPERLINK("<target>", "<label>"): the target's characters sit
\* between the lexemes of the formula
HyperlinkFormula(target, label) ==
    <<"=", "HYPERLINK", "(", "\"">> \o Str(target) \o <<"\"", ",", " ", "\"", label, "\"", ")">>

\* the key a folder is remembered by in seen_dirs: str(cumulative_path)
SeenKeyByName(cumulative_path) == cumulative_path[Len(cumulative_path)]
SeenKey(cumulative_path) == Str(cumulative_path)

\* one row of the hierarchical sheet (the metadata columns and the empty
\* remediation columns are left out); `indent` is the number of spaces put
\* before the name and `loc` the path the row stands for
FolderEntry(cumulative_path, i) ==
    [ItemType |-> "Folder", indent |-> 4 * i,
     label |-> cumulative_path[Len(cumulative_path)],
     Path |-> HyperlinkFormula(cumulative_path, "Open Folder"),
     loc |-> cumulative_path]

FileEntry(file_path) ==
    [ItemType |-> "File", indent |-> 4 * (Len(RelativeParts(file_path)) - 1),
     label |-> file_path[Len(file_path)],
     Path |-> HyperlinkFormula(file_path, "Open File"),
     loc |-> file_path]

\* files under dir_path; no file is an ancestor of another
TreeFilePool ==
    { <<<<"w">>, <<"g">>>>,
      <<<<"w">>, <<"a">>, <<"f">>>>,
      <<<<"w">>, <<"a">>, <<"g">>>>,
      <<<<"w">>, <<"a">>, <<"a">>, <<"f">>>>,
      <<<<"w">>, <<"a", "-">>, <<"f">>>>,
      <<<<"w">>, <<"\"">>>> }

Distinct(s) == \A i, j \in 1..Len(s) : i # j => s[i] # s[j]

TreeInit ==
    /\ RecIdle
    /\ WalkIdle
    /\ ExecIdle
    /\ BaseIdle
    /\ LinkIdle
    /\ file_data \in {s \in UNION {[1..n -> TreeFilePool] : n \in 0..MaxFiles} : Distinct(s)}
    /\ sorted_files = <<>>
    /\ hierarchical_data = <<>>
    /\ seen_dirs = {}
    /\ file_no = 0
    /\ depth = 0
    /\ tree_pc = "sort"

\* line 107
SortFiles ==
    /\ tree_pc = "sort"
    /\ sorted_files' = sorted(file_data)
    /\ file_no' = 1
    /\ depth' = 0
    /\ tree_pc' = "walk"
    /\ UNCHANGED <<file_data, hierarchical_data, seen_dirs, baseVars, linkVars, execVars,
                   recVars, walkVars>>

\* one turn of the inner loop (lines 114-134): the ancestor at index `depth`
VisitAncestor ==
    /\ tree_pc = "walk"
    /\ file_no <= Len(sorted_files)
    /\ LET file_path == sorted_files[file_no]
           parts == RelativeParts(file_path)
           cumulative_path == dir_path \o SubSeq(parts, 1, depth + 1)
       IN  /\ depth < Len(parts) - 1
           /\ IF SeenKey(cumulative_path) \notin seen_dirs
              THEN /\ hierarchical_data' =
                        Append(hierarchical_data, FolderEntry(cumulative_path, depth))
                   /\ seen_dirs' = seen_dirs \cup {SeenKey(cumulative_path)}
              ELSE UNCHANGED <<hierarchical_data, seen_dirs>>
    /\ depth' = depth + 1
    /\ UNCHANGED <<file_data, sorted_files, file_no, tree_pc, baseVars, linkVars, execVars,
                   recVars, walkVars>>

\* lines 136-153: the file's own row
EmitFile ==
    /\ tree_pc = "walk"
    /\ file_no <= Len(sorted_files)
    /\ LET file_path == sorted_files[file_no]
       IN  /\ depth = Len(RelativeParts(file_path)) - 1
           /\ hierarchical_data' = Append(hierarchical_data, FileEntry(file_path))
    /\ file_no' = file_no + 1
    /\ depth' = 0
    /\ UNCHANGED <<file_data, sorted_files, seen_dirs, tree_pc, baseVars, linkVars, execVars,
                   recVars, walkVars>>

\* line 155
ReturnTree ==
    /\ tree_pc = "walk"
    /\ file_no > Len(sorted_files)
    /\ tree_pc' = "done"
    /\ UNCHANGED <<file_data, sorted_files, hierarchical_data, seen_dirs, file_no, depth, baseVars, linkVars, execVars,
                   recVars, walkVars>>

TreeNext == SortFiles \/ VisitAncestor \/ EmitFile \/ ReturnTree

SpecTree == TreeInit /\ [][TreeNext]_vars

\* the folders of file_data: every proper ancestor, below dir_path, of a file
FoldersOf(files) ==
    UNION { {SubSeq(files[k], 1, n) : n \in (Len(dir_path) + 1)..(Len(files[k]) - 1)}
            : k \in 1..Len(files) }

\* the positions of the 'Folder' rows that stand for folder d
FolderRows(d) ==
    {i \in 1..Len(hierarchical_data) :
        hierarchical_data[i].ItemType = "Folder" /\ hierarchical_data[i].loc = d}

\* C1: when generate_hierarchical_structure returns, every folder of the
\* file records has exactly one 'Folder' row, and that row comes before
\* every row whose path lies under the folder.
C1_FolderOnceBeforeDescendants ==
    tree_pc = "done" =>
        \A d \in FoldersOf(file_data) :
            /\ Cardinality(FolderRows(d)) = 1
            /\ \A i \in FolderRows(d) :
                   \A j \in 1..Len(hierarchical_data) :
                       (IsPrefix(d, hierarchical_data[j].loc) /\ hierarchical_data[j].loc # d)
                           => i < j

\* C1 witness: a finished run over folder "a", shared by two files and
\* holding a folder of the same name, beside its sibling "a-", whose name
\* has "a" as a prefix.
C1_Witness ==
    /\ tree_pc = "done"
    /\ {<<<<"w">>, <<"a">>>>, <<<<"w">>, <<"a">>, <<"a">>>>} \subseteq FoldersOf(file_data)
    /\ Len(file_data) = 3
    /\ \E k \in 1..Len(file_data) : file_data[k] = <<<<"w">>, <<"a", "-">>, <<"f">>>>

(***************************************************************************)
(* The location references: the builder's 'Path' cells, as the workbook    *)
(* stores them, and extract_hyperlinks, which reads them back.             *)
(***************************************************************************)
QUOTE == "\""

\* the position of the first '"' of text at or after position i (0: none)
RECURSIVE NextQuote(_, _)
NextQuote(text, i) ==
    IF i > Len(text) THEN 0
    ELSE IF text[i] = QUOTE THEN i
    ELSE NextQuote(text, i + 1)

\* whether HYPERLINK\("([^"]+)" matches text at position i
MatchesAt(text, i) ==
    /\ i + 3 <= Len(text)
    /\ text[i] = "HYPERLINK"
    /\ text[i + 1] = "("
    /\ text[i + 2] = QUOTE
    /\ NextQuote(text, i + 3) > i + 3

\* hyperlink_regex.search(cell.value): group 1 of the leftmost match, or None
RegexSearch(text) ==
    LET hits == {i \in 1..Len(text) : MatchesAt(text, i)}
    IN  IF hits = {} THEN NoText
        ELSE LET i == CHOOSE k \in hits : \A h \in hits : k <= h
             IN  Text(SubSeq(text, i + 3, NextQuote(text, i + 3) - 1))

\* the body of the loop of extract_hyperlinks for one cell (lines 49-61)
LinkOfCell(cell) ==
    IF cell.value # <<>> /\ \E i \in 1..Len(cell.value) : cell.value[i] = "HYPERLINK"
    THEN RegexSearch(cell.value)
    ELSE NoText

\* extract_hyperlinks: the dict from sheet row (the first data row is row 2)
\* to the link of its 'Path' cell; sheet[k] is the cell of sheet row k + 1
extract_hyperlinks(cells) ==
    [row_index \in 2..(Len(cells) + 1) |-> LinkOfCell(cells[row_index - 1])]

\* main, lines 268-269: hyperlinks.get(index + 2) for data-frame index `index`
ExtractedPath(index) ==
    IF index + 2 \in DOMAIN hyperlinks THEN hyperlinks[index + 2] ELSE NoText

\* a 'Path' cell as the builder's formula text, and the same reference kept
\* as a link attached to the cell, which then shows only its label
FormulaCell(entry) == [value |-> entry.Path, hyperlink |-> NoText]
NativeLinkCell(entry) ==
    [value |-> <<IF entry.ItemType = "Folder" THEN "Open Folder" ELSE "Open File">>,
     hyperlink |-> Text(Str(entry.loc))]

\* df_hierarchy.to_excel writes data-frame row i to sheet row i + 2; the
\* workbook that comes back holds each reference in one of the two shapes
SaveSheet ==
    /\ tree_pc = "done"
    /\ link_pc = "unsaved"
    /\ \E shape \in [1..Len(hierarchical_data) -> {"formula", "native"}] :
           sheet' = [k \in 1..Len(hierarchical_data) |->
                        IF shape[k] = "formula" THEN FormulaCell(hierarchical_data[k])
                        ELSE NativeLinkCell(hierarchical_data[k])]
    /\ link_pc' = "saved"
    /\ UNCHANGED <<hyperlinks, baseVars, treeVars, execVars,
                   recVars, walkVars>>

ExtractHyperlinks ==
    /\ link_pc = "saved"
    /\ hyperlinks' = extract_hyperlinks(sheet)
    /\ link_pc' = "extracted"
    /\ UNCHANGED <<sheet, baseVars, treeVars, execVars,
                   recVars, walkVars>>

LinkInit ==
    /\ RecIdle
    /\ WalkIdle
    /\ ExecIdle
    /\ BaseIdle
    /\ file_data \in {s \in UNION {[1..n -> TreeFilePool] : n \in 0..MaxFiles} : Distinct(s)}
    /\ sorted_files = <<>>
    /\ hierarchical_data = <<>>
    /\ seen_dirs = {}
    /\ file_no = 0
    /\ depth = 0
    /\ tree_pc = "sort"
    /\ sheet = <<>>
    /\ hyperlinks = <<>>
    /\ link_pc = "unsaved"

LinkNext == TreeNext \/ SaveSheet \/ ExtractHyperlinks

SpecLink == LinkInit /\ [][LinkNext]_vars

\* C10: after extract_hyperlinks, every row of the builder's table gets back,
\* under its own index (sheet row = index + 2), the absolute path the builder
\* wrote into its 'Path' cell, in either storage shape.
C10_LinkRoundTrip ==
    link_pc = "extracted" =>
        \A index \in 0..(Len(hierarchical_data) - 1) :
            ExtractedPath(index) = Text(Str(hierarchical_data[index + 1].loc))

\* C10 for the formula shape alone and paths without a double quote
C10_FormulaRoundTrip ==
    link_pc = "extracted" =>
        \A index \in 0..(Len(hierarchical_data) - 1) :
            (/\ sheet[index + 1].hyperlink = NoText
             /\ \A k \in 1..Len(Str(hierarchical_data[index + 1].loc)) :
                    Str(hierarchical_data[index + 1].loc)[k] # QUOTE)
                => ExtractedPath(index) = Text(Str(hierarchical_data[index + 1].loc))

(***************************************************************************)
(* pathlib and the file system.  A Path object is absolute or relative to  *)
(* the working directory of the process; the file system is a function     *)
(* from the absolute paths that exist (the root always does) to the kind   *)
(* of the entry and the identity of what is stored there.                  *)
(***************************************************************************)
\* the parts of a string split at "/" (empty parts dropped)
RECURSIVE SplitParts(_, _)
SplitParts(s, cur) ==
    IF s = <<>> THEN (IF cur = <<>> THEN <<>> ELSE <<cur>>)
    ELSE IF s[1] = SEP
         THEN (IF cur = <<>> THEN <<>> ELSE <<cur>>) \o SplitParts(Tail(s), <<>>)
         ELSE SplitParts(Tail(s), Append(cur, s[1]))

\* Path(s)
PathOf(s) == [abs |-> s # <<>> /\ s[1] = SEP, parts |-> SplitParts(s, <<>>)]

\* str(path)
StrOf(p) ==
    IF p.abs THEN Str(p.parts)
    ELSE IF p.parts = <<>> THEN <<".">>
    ELSE Tail(Str(p.parts))

\* path.parent and path / name (a name holds no "/")
ParentOf(p) == [abs |-> p.abs, parts |-> Parent(p.parts)]
Join(p, name) == [abs |-> p.abs, parts |-> Append(p.parts, name)]

\* the absolute path the operating system resolves a Path object to
Abs(p) == IF p.abs THEN p.parts ELSE cwd \o p.parts

Exists(f, a) == a = <<>> \/ a \in DOMAIN f
IsDir(f, a) == a = <<>> \/ (a \in DOMAIN f /\ f[a].kind = "dir")
IsFile(f, a) == a \in DOMAIN f /\ f[a].kind = "file"

\* Path.suffix of a name: from its last "." on, unless that is the first or
\* the last character
Suffix(name) ==
    LET dots == {k \in 1..Len(name) : name[k] = "."}
    IN  IF dots = {} THEN <<>>
        ELSE LET k == CHOOSE d \in dots : \A e \in dots : e <= d
             IN  IF 1 < k /\ k < Len(name) THEN SubSeq(name, k, Len(name)) ELSE <<>>

\* the entry at src, with all below it, taken to dst
Relocate(f, src, dst) ==
    LET moved == {q \in DOMAIN f : IsPrefix(src, q)}
        kept == DOMAIN f \ moved
        NewPlace(q) == dst \o SubSeq(q, Len(src) + 1, Len(q))
    IN  [a \in kept \cup {NewPlace(q) : q \in moved} |->
            IF \E q \in moved : NewPlace(q) = a
            THEN f[CHOOSE q \in moved : NewPlace(q) = a]
            ELSE f[a]]

\* os.rename(src, dst) on one volume: `oserr` is a failure of the operating
\* system (permissions, a file in use); a file replaces an existing file
OsRename(f, src, dst, oserr) ==
    IF oserr \/ ~Exists(f, src) \/ ~IsDir(f, Parent(dst)) THEN [ok |-> FALSE, fs |-> f]
    ELSE IF src = dst THEN [ok |-> TRUE, fs |-> f]
    ELSE IF IsPrefix(src, dst) THEN [ok |-> FALSE, fs |-> f]
    ELSE IF Exists(f, dst) /\ ~(IsFile(f, src) /\ IsFile(f, dst)) THEN [ok |-> FALSE, fs |-> f]
    ELSE [ok |-> TRUE, fs |-> Relocate(f, src, dst)]

\* shutil.move(src, dst) on one volume
ShutilMove(f, src, dst, oserr) ==
    IF IsDir(f, dst) /\ src = dst THEN OsRename(f, src, dst, oserr)
    ELSE IF IsDir(f, dst) /\ Exists(f, Append(dst, src[Len(src)]))
         THEN [ok |-> FALSE, fs |-> f]
    ELSE OsRename(f, src, IF IsDir(f, dst) THEN Append(dst, src[Len(src)]) ELSE dst, oserr)

(***************************************************************************)
(* The three actions of the remediation script.  Each returns its status   *)
(* string with the file system it leaves.                                  *)
(***************************************************************************)
OSErrorText == <<"OSError">>

\* action_rename; without the test of lines 87-90 a rename onto an existing
\* file would replace it
action_rename_unchecked(f, path, new_name, oserr) ==
    IF ~Exists(f, Abs(path))
    THEN [result |-> <<"Rename Failed - Original file", SEP, "folder does not exist: ">>
                        \o StrOf(path),
          fs |-> f]
    ELSE LET new_path == Join(ParentOf(path), new_name)
             original_extension == Suffix(path.parts[Len(path.parts)])
             final_name == IF IsFile(f, Abs(path)) /\ ~EndsWith(new_name, original_extension)
                           THEN new_name \o original_extension
                           ELSE new_name
             r == OsRename(f, Abs(path), Abs(new_path), oserr)
         IN  IF r.ok THEN [result |-> final_name, fs |-> r.fs]
             ELSE [result |-> <<"Rename Error: ">> \o OSErrorText, fs |-> f]
action_rename(f, path, new_name, oserr) ==
    IF ~Exists(f, Abs(path))
    THEN [result |-> <<"Rename Failed - Original file", SEP, "folder does not exist: ">>
                        \o StrOf(path),
          fs |-> f]
    ELSE LET new_path == Join(ParentOf(path), new_name)
             original_extension == Suffix(path.parts[Len(path.parts)])
             final_name == IF IsFile(f, Abs(path)) /\ ~EndsWith(new_name, original_extension)
                           THEN new_name \o original_extension
                           ELSE new_name
         IN  IF Exists(f, Abs(new_path))
             THEN [result |-> <<"Rename Failed - New name already exists: ">> \o StrOf(new_path),
                   fs |-> f]
             ELSE LET r == OsRename(f, Abs(path), Abs(new_path), oserr)
                  IN  IF r.ok THEN [result |-> final_name, fs |-> r.fs]
                      ELSE [result |-> <<"Rename Error: ">> \o OSErrorText, fs |-> f]

\* folders_to_create.get(move_to_folder_name, BASE_DIRECTORY / move_to_folder_name)
MoveTarget(move_to, map, base) ==
    IF move_to \in DOMAIN map THEN map[move_to] ELSE Append(base, move_to)

\* action_move
action_move(f, path, move_to, map, base, oserr) ==
    LET target_dir == MoveTarget(move_to, map, base)
    IN  IF ~Exists(f, Abs(path))
        THEN [result |-> <<"Move Failed - Original file", SEP, "folder does not exist: ">>
                            \o StrOf(path),
              fs |-> f]
        ELSE IF ~IsDir(f, target_dir)
        THEN [result |-> <<"Move Failed - Target directory is not a directory: ">>
                            \o Str(target_dir),
              fs |-> f]
        ELSE LET r == ShutilMove(f, Abs(path), target_dir, oserr)
             IN  IF r.ok
                 THEN [result |-> <<"Moved ">> \o StrOf(path) \o <<" to ">> \o Str(target_dir),
                       fs |-> r.fs]
                 ELSE [result |-> <<"Move Error: ">> \o OSErrorText, fs |-> f]

\* action_delete
action_delete(f, path, recycle, oserr) ==
    IF Exists(f, Abs(path))
    THEN LET r == ShutilMove(f, Abs(path), recycle, oserr)
         IN  IF r.ok
             THEN [result |-> <<"Moved ">> \o StrOf(path) \o <<" to recycle directory: ">>
                                 \o Str(recycle),
                   fs |-> r.fs]
             ELSE [result |-> <<"Delete Error: ">> \o OSErrorText, fs |-> f]
    ELSE [result |-> <<"Delete Failed - File not found">>, fs |-> f]

\* result.startswith("Failed")
StartsWithFailed(result) ==
    \/ StartsWith(result, <<"F", "a", "i", "l", "e", "d">>)
    \/ (result # <<>> /\ result[1] = "Failed - Target directory not found for moving: ")

(***************************************************************************)
(* The remediation pass: main from the reconciliation of the target        *)
(* folders on, and perform_actions.                                        *)
(***************************************************************************)
N_w == <<"w">>
N_b == <<"b">>
N_k == <<"k">>
N_s == <<"s">>
N_t == <<"t">>
N_n == <<"n">>
N_r == <<"r">>
N_fx == <<"f", ".", "x">>
N_rx == <<"r", ".", "x">>
N_gone == <<"g", "o">>

\* the tree the audit was made of: /w/b with the files f.x and r.x and the
\* folder s, which holds another f.x; /w/k lies beside it
Fixture ==
    LET dir(n) == [kind |-> "dir", id |-> n]
        file(n) == [kind |-> "file", id |-> n]
        at == <<<<N_w>>, <<N_w, N_b>>, <<N_w, N_b, N_fx>>, <<N_w, N_b, N_rx>>,
                <<N_w, N_b, N_s>>, <<N_w, N_b, N_s, N_fx>>, <<N_w, N_k>>>>
        what == <<dir(1), dir(2), file(3), file(4), dir(5), file(6), dir(7)>>
    IN  [a \in {at[i] : i \in 1..Len(at)} |-> what[CHOOSE i \in 1..Len(at) : at[i] = a]]

BaseOfRows == <<N_w, N_b>>

\* dict[key] = value
DictPut(map, key, value) ==
    [x \in DOMAIN map \cup {key} |-> IF x = key THEN value ELSE map[x]]

\* folder_path.mkdir(parents=True, exist_ok=True), the parents existing
Mkdir(f, a) ==
    IF Exists(f, a) THEN f
    ELSE [x \in DOMAIN f \cup {a} |->
            IF x = a THEN [kind |-> "dir", id |-> Cardinality(DOMAIN f) + 1] ELSE f[x]]

\* one turn of the loop of main over move_to_folders (lines 280-297) with
\* the user's answer to the prompt
ReconcileWithoutMkdir(state, base, folder_name, answer) ==
    LET folder_path == Append(base, folder_name)
    IN  IF Exists(state.fs, folder_path) THEN state
        ELSE IF answer = "yes"
             THEN [fs |-> state.fs, map |-> DictPut(state.map, folder_name, folder_path)]
        ELSE IF answer = "no"
             THEN [fs |-> state.fs, map |-> DictPut(state.map, folder_name, base)]
        ELSE state
Reconcile(state, base, folder_name, answer) ==
    LET folder_path == Append(base, folder_name)
    IN  IF Exists(state.fs, folder_path) THEN state
        ELSE IF answer = "yes"
             THEN [fs |-> Mkdir(state.fs, folder_path),
                   map |-> DictPut(state.map, folder_name, folder_path)]
        ELSE IF answer = "no"
             THEN [fs |-> state.fs, map |-> DictPut(state.map, folder_name, base)]
        ELSE state

\* main, line 306 and lines 311-325: the recycle directories the prompt
\* loop lets through
RecycleAccepted(f, base, recycle) ==
    /\ ~(IsPrefix(base, recycle) /\ recycle # base)
    /\ IsDir(f, recycle)

\* str.strip
RECURSIVE LStrip(_)
LStrip(s) == IF s # <<>> /\ s[1] = " " THEN LStrip(Tail(s)) ELSE s
RECURSIVE RStrip(_)
RStrip(s) == IF s # <<>> /\ s[Len(s)] = " " THEN RStrip(SubSeq(s, 1, Len(s) - 1)) ELSE s
Strip(s) == LStrip(RStrip(s))

\* row[...].strip() if isinstance(row[...], str) else ''
CellText(cell) == IF cell.some THEN Strip(cell.text) ELSE <<>>

Tokens == {"rename", "move", "delete", " move"}

RowPathPool ==
    {<<N_w, N_b>>, <<N_w, N_b, N_fx>>, <<N_w, N_b, N_s>>, <<N_w, N_b, N_s, N_fx>>,
     <<N_w, N_b, N_gone>>}

\* the 'Extracted Path' of a row: None, or the text of a path
ExtractedPaths == {NoText} \cup {Text(Str(p)) : p \in RowPathPool}

\* the 'Rename as...' cells: empty, or a name
RenameCells == {NoText, Text(N_n), Text(N_r), Text(N_rx)}

\* the 'Move to...' cells of a row whose Action holds "move": blank, or a
\* name (main, line 281, does not get past an empty cell of such a row)
MoveCells == {Text(<<" ">>), Text(N_s), Text(N_t)}

ExecInit ==
    /\ RecIdle
    /\ WalkIdle
    /\ BaseIdle
    /\ TreeIdle
    /\ LinkIdle
    /\ cwd \in {<<N_w>>, <<N_w, N_b>>}
    /\ BASE_DIRECTORY = BaseOfRows
    /\ \E answer \in {"yes", "no", "other"} :
           LET start == [fs |-> Fixture, map |-> <<>>]
               done == Reconcile(Reconcile(start, BaseOfRows, N_s, answer),
                                 BaseOfRows, N_t, answer)
           IN  /\ fs = done.fs
               /\ folders_to_create = done.map
    /\ recycle_dir_path \in {d \in {<<N_w, N_k>>, BaseOfRows} :
                               RecycleAccepted(Fixture, BaseOfRows, d)}
    /\ row_no = 0
    /\ row = NoRow
    /\ original_path = NoPathObject
    /\ status = <<>>
    /\ action_logs = <<>>
    /\ pc = "row"

(***************************************************************************)
(* perform_actions.  The table is read as the loop reaches it: a row when  *)
(* its iteration starts, a token of its Action text when the inner loop    *)
(* comes to it (row.Action holds the tokens gone through so far), a cell   *)
(* of 'Rename as...' or 'Move to...' when a token first needs it.          *)
(***************************************************************************)
actions == row.Action
new_name == CellText(row.RenameAs)
move_to == CellText(row.MoveTo)

\* the row with `cell` as its `field`, which no token has read before or
\* which held `cell` already
Reads(field, cell) == row[field] = Unread \/ row[field] = cell

\* the next token of the Action text; line 251 has stripped the text, so its
\* first token starts with no space
NextToken(token) ==
    /\ pc = "tok"
    /\ Len(actions) < MaxTokens
    /\ actions = <<>> => token # " move"

\* line 166 on a row without a location reference: Path(None) raises
\* TypeError, which nothing catches
RowWithoutPath ==
    /\ pc = "row"
    /\ row_no < MaxRows
    /\ row' = [row EXCEPT !.ExtractedPath = NoText]
    /\ row_no' = row_no + 1
    /\ pc' = "raised"
    /\ UNCHANGED <<fs, cwd, BASE_DIRECTORY, folders_to_create, recycle_dir_path,
                   original_path, status, action_logs, baseVars, treeVars, linkVars,
                   recVars, walkVars>>

\* lines 169-171: the row's path is not on disk
RowNotFound ==
    /\ pc = "row"
    /\ row_no < MaxRows
    /\ \E p \in ExtractedPaths :
           /\ p.some
           /\ ~Exists(fs, Abs(PathOf(p.text)))
    /\ row_no' = row_no + 1
    /\ action_logs' = Append(action_logs, row_no + 1)
    /\ UNCHANGED <<fs, cwd, BASE_DIRECTORY, folders_to_create, recycle_dir_path,
                   row, original_path, status, pc, baseVars, treeVars, linkVars,
                   recVars, walkVars>>

\* lines 160-173: the row's path is on disk
RowBegin ==
    /\ pc = "row"
    /\ row_no < MaxRows
    /\ \E p \in ExtractedPaths :
           /\ p.some
           /\ Exists(fs, Abs(PathOf(p.text)))
           /\ row' = [ExtractedPath |-> p, Action |-> <<>>,
                      RenameAs |-> Unread, MoveTo |-> Unread]
           /\ original_path' = PathOf(p.text)
    /\ row_no' = row_no + 1
    /\ status' = <<>>
    /\ pc' = "tok"
    /\ UNCHANGED <<fs, cwd, BASE_DIRECTORY, folders_to_create, recycle_dir_path,
                   action_logs, baseVars, treeVars, linkVars,
                   recVars, walkVars>>

\* lines 176-181
DoRename ==
    /\ NextToken("rename")
    /\ \E cell \in RenameCells, oserr \in BOOLEAN :
           /\ Reads("RenameAs", cell)
           /\ CellText(cell) # <<>>
           /\ row' = [row EXCEPT !.Action = Append(@, "rename"), !.RenameAs = cell]
           /\ LET r == action_rename(fs, original_path, CellText(cell), oserr)
              IN  /\ status' = Append(status, r.result)
                  /\ fs' = r.fs
                  /\ original_path' = IF ~StartsWithFailed(r.result)
                                      THEN PathOf(r.result)
                                      ELSE original_path
    /\ UNCHANGED <<cwd, BASE_DIRECTORY, folders_to_create, recycle_dir_path,
                   row_no, action_logs, pc, baseVars, treeVars, linkVars,
                   recVars, walkVars>>

\* line 184: the move is attempted only for a name reconciled into the map
\* or found as a folder under the base directory
MoveTargetAlwaysKnown(f, name, map, base) == TRUE
MoveTargetKnown(f, name, map, base) ==
    name \in DOMAIN map \/ Exists(f, Append(base, name))

\* lines 184-188
MoveOrFail(f, path, name, map, base, oserr) ==
    IF MoveTargetKnown(f, name, map, base)
    THEN action_move(f, path, name, map, base, oserr)
    ELSE [result |-> <<"Failed - Target directory not found for moving: ">> \o name,
          fs |-> f]

\* lines 183-189
DoMove ==
    /\ NextToken("move")
    /\ \E cell \in MoveCells, oserr \in BOOLEAN :
           /\ Reads("MoveTo", cell)
           /\ CellText(cell) # <<>>
           /\ row' = [row EXCEPT !.Action = Append(@, "move"), !.MoveTo = cell]
           /\ LET r == MoveOrFail(fs, original_path, CellText(cell), folders_to_create,
                                  BASE_DIRECTORY, oserr)
              IN  /\ status' = Append(status, r.result)
                  /\ fs' = r.fs
    /\ UNCHANGED <<cwd, BASE_DIRECTORY, folders_to_create, recycle_dir_path,
                   row_no, original_path, action_logs, pc,
                   baseVars, treeVars, linkVars,
                   recVars, walkVars>>

\* lines 191-194
DoDelete ==
    /\ NextToken("delete")
    /\ row' = [row EXCEPT !.Action = Append(@, "delete")]
    /\ \E oserr \in BOOLEAN :
           LET r == action_delete(fs, original_path, recycle_dir_path, oserr)
           IN  /\ status' = Append(status, r.result)
               /\ fs' = r.fs
    /\ UNCHANGED <<cwd, BASE_DIRECTORY, folders_to_create, recycle_dir_path,
                   row_no, original_path, action_logs, pc,
                   baseVars, treeVars, linkVars,
                   recVars, walkVars>>

\* a token that none of the three branches of lines 176-194 takes: "rename"
\* with an empty new_name, "move" with an empty move_to, or no action word
NoBranch ==
    /\ \E token \in Tokens \ {"delete"}, rcell \in RenameCells, mcell \in MoveCells :
           /\ NextToken(token)
           /\ token = "rename" => (Reads("RenameAs", rcell) /\ CellText(rcell) = <<>>)
           /\ token = "move" => (Reads("MoveTo", mcell) /\ CellText(mcell) = <<>>)
           /\ row' = [row EXCEPT !.Action = Append(@, token),
                                 !.RenameAs = IF token = "rename" THEN rcell ELSE @,
                                 !.MoveTo = IF token = "move" THEN mcell ELSE @]
    /\ UNCHANGED <<fs, cwd, BASE_DIRECTORY, folders_to_create, recycle_dir_path,
                   row_no, original_path, status, action_logs, pc,
                   baseVars, treeVars, linkVars,
                   recVars, walkVars>>

\* the row's inner loop is over
RowEnds == pc = "tok" /\ actions # <<>>

\* the entry line 196 appends for the row
LogEntry == [Action |-> actions, Path |-> StrOf(original_path), Status |-> status]

\* line 196.  An entry of action_logs is kept as the number of the row that
\* appended it; its fields are LogEntry at that moment.  The locals of the
\* finished row are dead (the next row overwrites them before it reads
\* them) and are cleared
AppendLog ==
    /\ RowEnds
    /\ action_logs' = Append(action_logs, row_no)
    /\ pc' = "row"
    /\ row' = NoRow
    /\ original_path' = NoPathObject
    /\ status' = <<>>
    /\ UNCHANGED <<fs, cwd, BASE_DIRECTORY, folders_to_create, recycle_dir_path,
                   row_no, baseVars, treeVars, linkVars,
                   recVars, walkVars>>

\* the table has no further row: perform_actions returns
ReturnFromActions ==
    /\ pc = "row"
    /\ row_no >= 1
    /\ pc' = "done"
    /\ UNCHANGED <<fs, cwd, BASE_DIRECTORY, folders_to_create, recycle_dir_path,
                   row_no, row, original_path, status, action_logs,
                   baseVars, treeVars, linkVars,
                   recVars, walkVars>>

Init == ExecInit

Next ==
    \/ RowWithoutPath
    \/ RowNotFound
    \/ RowBegin
    \/ DoRename
    \/ DoMove
    \/ DoDelete
    \/ NoBranch
    \/ AppendLog
    \/ ReturnFromActions

Spec == Init /\ [][Next]_vars

(***************************************************************************)
(* The reconciliation of the target folders: main, lines 275-297, as a     *)
(* process of its own.  move_to_folders holds the distinct cells of the    *)
(* 'Move to...' column of the rows whose Action text contains 'move' (an   *)
(* empty cell is read as NaN); answers are the user's replies so far.      *)
(***************************************************************************)
FolderNamePool == {Text(N_s), Text(N_k), Text(N_t), NoText}

\* the base directory is the common path of the rows: a folder, or the
\* file of a single row
ReconcileInit ==
    /\ BaseIdle
    /\ TreeIdle
    /\ LinkIdle
    /\ WalkIdle
    /\ fs = Fixture
    /\ cwd = <<N_w>>
    /\ BASE_DIRECTORY \in {<<N_w, N_b>>, <<N_w, N_b, N_fx>>}
    /\ folders_to_create = <<>>
    /\ recycle_dir_path = <<>>
    /\ row_no = 0
    /\ row = NoRow
    /\ original_path = NoPathObject
    /\ status = <<>>
    /\ action_logs = <<>>
    /\ pc = "reconcile"
    /\ move_to_folders \in
          {q \in UNION {[1..n -> FolderNamePool] : n \in 0..MaxFolders} : Distinct(q)}
    /\ folder_no = 0
    /\ answers = <<>>

\* lines 280-297: one turn of the loop.  BASE_DIRECTORY / nan raises
\* TypeError (line 281); mkdir raises when the base directory is a file
\* (line 287), after the entry was written (line 286)
ReconcileFolder ==
    /\ pc = "reconcile"
    /\ folder_no < Len(move_to_folders)
    /\ folder_no' = folder_no + 1
    /\ LET cell == move_to_folders[folder_no + 1]
           folder_name == cell.text
           folder_path == Append(BASE_DIRECTORY, folder_name)
       IN  IF ~cell.some
           THEN /\ pc' = "raised"
                /\ UNCHANGED <<fs, folders_to_create, answers>>
           ELSE \E answer \in {"yes", "no", "other"} :
                  /\ answers' = IF Exists(fs, folder_path) THEN answers
                                                           ELSE Append(answers, answer)
                  /\ IF ~Exists(fs, folder_path) /\ answer = "yes" /\ ~IsDir(fs, BASE_DIRECTORY)
                     THEN /\ folders_to_create' = DictPut(folders_to_create, folder_name,
                                                          folder_path)
                          /\ fs' = fs
                          /\ pc' = "raised"
                     ELSE LET done == Reconcile([fs |-> fs, map |-> folders_to_create],
                                                BASE_DIRECTORY, folder_name, answer)
                          IN  /\ fs' = done.fs
                              /\ folders_to_create' = done.map
                              /\ pc' = pc
    /\ UNCHANGED <<cwd, BASE_DIRECTORY, recycle_dir_path, row_no, row, original_path,
                   status, action_logs, move_to_folders,
                   baseVars, treeVars, linkVars, walkVars>>

\* the loop of line 280 ends
ReconcileReturn ==
    /\ pc = "reconcile"
    /\ folder_no = Len(move_to_folders)
    /\ pc' = "reconciled"
    /\ UNCHANGED <<fs, cwd, BASE_DIRECTORY, folders_to_create, recycle_dir_path,
                   row_no, row, original_path, status, action_logs,
                   recVars, baseVars, treeVars, linkVars, walkVars>>

ReconcileNext == ReconcileFolder \/ ReconcileReturn

SpecReconcile == ReconcileInit /\ [][ReconcileNext]_vars

(***************************************************************************)
(* Properties of the remediation pass.                                     *)
(***************************************************************************)
Last(s) == s[Len(s)]

\* the statuses that report a failure
IsFailure(result) ==
    result[1] \in {"Rename Failed - Original file", "Rename Failed - New name already exists: ",
                   "Rename Error: ", "Move Failed - Original file",
                   "Move Failed - Target directory is not a directory: ", "Move Error: ",
                   "Delete Error: ", "Delete Failed - File not found",
                   "Failed - Target directory not found for moving: "}

\* a step of the inner loop that goes through `token`, and one in which a
\* branch of lines 176-194 ran for it
TokenStep(token) == pc = "tok" /\ pc' = "tok" /\ actions' = Append(actions, token)
Acted(token) == TokenStep(token) /\ Len(status') = Len(status) + 1

\* the place in file system f of the entry that is at path a now
PlaceIn(f, a) == {b \in DOMAIN f : f[b].id = fs[a].id}

\* C2: a rename of an existing file that has an extension, to a new name
\* that lacks it, no entry having the resulting name and the operating
\* system not failing, leaves the file in the same directory under the new
\* name with the extension appended.
C2_RenameKeepsExtension ==
    [][LET src == Abs(original_path)
           ext == Suffix(Last(src))
           final == Append(Parent(src), new_name' \o ext)
       IN  (/\ Acted("rename")
            /\ IsFile(fs, src)
            /\ ext # <<>>
            /\ ~EndsWith(new_name', ext)
            /\ ~Exists(fs, final)
            /\ Last(status') # <<"Rename Error: ">> \o OSErrorText)
               => PlaceIn(fs', src) = {final}]_vars

\* C3: after a rename that succeeded, the row's working path is the place
\* on disk of the entry that was renamed.
C3_WorkingPathFollowsRename ==
    [][(/\ Acted("rename")
        /\ ~IsFailure(Last(status')))
           => PlaceIn(fs', Abs(original_path)) = {Abs(original_path')}]_vars

\* C4: a rename whose final name (the extension appended where it is
\* missing) is taken in the source's directory records a failure and
\* changes nothing on disk.
C4_RenameConflictFails ==
    [][LET src == Abs(original_path)
           ext == IF IsFile(fs, src) THEN Suffix(Last(src)) ELSE <<>>
           final == Append(Parent(src),
                           IF EndsWith(new_name', ext) THEN new_name' ELSE new_name' \o ext)
       IN  (/\ Acted("rename")
            /\ Exists(fs, src)
            /\ Exists(fs, final))
               => (IsFailure(Last(status')) /\ fs' = fs)]_vars

C6_DeleteMovesToRecycle ==
    [][LET src == Abs(original_path)
       IN  (/\ Acted("delete")
            /\ Exists(fs, src))
               => IF IsFailure(Last(status'))
                  THEN PlaceIn(fs', src) = {src}
                  ELSE PlaceIn(fs', src) = {Append(recycle_dir_path, Last(src))}]_vars

\* C7: no error escapes perform_actions, and when it returns the report
\* holds one entry per row, in row order.
C7_RunCompletesWithFullReport ==
    /\ pc # "raised"
    /\ pc = "done" => action_logs = [i \in 1..row_no |-> i]

\* C8: for a row whose path exists, every token gone through has appended
\* one status to the row's status log.
C8_OneStatusPerToken ==
    pc = "tok" => Len(status) = Len(actions)

\* the places in file system f of the entry the fixture holds at path a
PlacesOf(f, a) == {b \in DOMAIN f : f[b].id = Fixture[a].id}

\* every entry that existed before the pass exists at exactly one place
NothingDestroyed == \A a \in DOMAIN Fixture : Cardinality(PlacesOf(fs, a)) = 1

\* the place an action on the working path is to put its source: the new
\* name in the source's directory, the source's name in the target folder,
\* the source's name in the recycle directory
Destination(token) ==
    LET src == Abs(original_path)
    IN  IF token = "rename" THEN Append(Parent(src), new_name')
        ELSE IF token = "move"
             THEN Append(MoveTarget(move_to', folders_to_create, BASE_DIRECTORY), Last(src))
        ELSE Append(recycle_dir_path, Last(src))

C13_MoveToOwnFolderIsSkipped ==
    [][LET src == Abs(original_path)
           target_dir == MoveTarget(move_to', folders_to_create, BASE_DIRECTORY)
       IN  (/\ Acted("move")
            /\ Exists(fs, src)
            /\ src # <<>>
            /\ IsDir(fs, target_dir)
            /\ Parent(src) = target_dir)
               => /\ Last(status') = <<"skipped, identical">>
                  /\ ~IsFailure(Last(status'))
                  /\ fs' = fs]_vars

\* C15: a rename that fails leaves the row's working path what it was.
C15_FailedRenameKeepsWorkingPath ==
    [][(/\ Acted("rename")
        /\ IsFailure(Last(status')))
           => original_path' = original_path]_vars

(***************************************************************************)
(* Properties of the reconciliation of the target folders.                 *)
(***************************************************************************)
\* the folder names referenced by the rows
ReferencedNames == {move_to_folders[i].text : i \in {k \in 1..Len(move_to_folders) :
                                                         move_to_folders[k].some}}

\* the existing folders a search for `name` is to find first: under the base
\* directory, else under a sibling of it, else under the nearest ancestor
FirstMatches(f, base, name) ==
    LET siblings == {d \in DOMAIN f : /\ Len(d) = Len(base)
                                      /\ Parent(d) = Parent(base)
                                      /\ d # base
                                      /\ f[d].kind = "dir"}
        underSibling == {Append(d, name) : d \in siblings} \cap DOMAIN f
        underAncestor == {Append(SubSeq(base, 1, n), name) : n \in 0..(Len(base) - 1)}
                             \cap DOMAIN f
    IN  IF Exists(f, Append(base, name)) THEN {Append(base, name)}
        ELSE IF underSibling # {} THEN underSibling
        ELSE {a \in underAncestor : \A b \in underAncestor : Len(b) <= Len(a)}

Prompted ==
    SelectSeq(move_to_folders,
              LAMBDA cell : cell.some /\ ~Exists(Fixture, Append(BASE_DIRECTORY, cell.text)))

WalkFilePool ==
    { <<<<"w">>, <<"f">>>>,
      <<<<"w">>, <<"t", "m", "p">>, <<"x">>>>,
      <<<<"w">>, <<"k", "e", "e", "p">>, <<"y">>>>,
      <<<<"w">>, <<"t", "m", "p", "x">>, <<"z">>>>,
      <<<<"w">>, <<"t", "m", "p">>, <<"s", "u", "b">>, <<"v">>>> }

ExcludePool ==
    { <<<<"w">>, <<"t", "m", "p">>>>,
      <<<<"w">>, <<"k", "e", "e", "p">>>>,
      <<<<"w">>, <<"t", "m", "p">>, <<"s", "u", "b">>>>,
      <<<<"w">>, <<"g", "o">>>> }

\* the tree that holds the files of `stat` (a function from their paths to
\* the outcome of os.stat) and the folders above them
TreeOf(stat) ==
    LET folders == {dir_path} \cup
                   UNION {{SubSeq(a, 1, n) : n \in Len(dir_path)..(Len(a) - 1)} : a \in DOMAIN stat}
    IN  [a \in folders \cup DOMAIN stat |->
            IF a \in DOMAIN stat THEN [kind |-> "file", stat |-> stat[a]]
                                  ELSE [kind |-> "dir", stat |-> "ok"]]

WalkInit ==
    /\ BaseIdle
    /\ TreeIdle
    /\ LinkIdle
    /\ ExecIdle
    /\ RecIdle
    /\ \E files \in {S \in SUBSET WalkFilePool : Cardinality(S) <= MaxWalkFiles} :
           \E stat \in [files -> {"ok", "gone", "denied"}] : tree = TreeOf(stat)
    /\ exclude_folders \in SUBSET ExcludePool
    /\ pending = <<dir_path>>
    /\ walked = <<>>
    /\ walk_pc = "walk"

\* line 76: root_path.joinpath(d).resolve() in exclude_folders, an equality
\* of Path objects
ExcludedByPrefix(path, excluded) == \E e \in excluded : StartsWith(Str(path), Str(e))
Excluded(path, excluded) == path \in excluded

\* the orders in which the operating system may list a set of entries
Orders(entries) == {q \in [1..Cardinality(entries) -> entries] : Distinct(q)}

\* lines 72-97: one turn of the loop over os.walk(dir_path, topdown=True):
\* the folders of root_path that are not excluded are left in dirs, to be
\* walked next, before anything else still pending; each file of root_path
\* is recorded unless os.stat fails
WalkDir ==
    /\ walk_pc = "walk"
    /\ pending # <<>>
    /\ LET root_path == Head(pending)
           entries == {a \in DOMAIN tree : Len(a) = Len(root_path) + 1 /\ Parent(a) = root_path}
           dirs == {d \in entries : tree[d].kind = "dir" /\ ~Excluded(d, exclude_folders)}
           files == {a \in entries : tree[a].kind = "file"}
       IN  \E dirs_order \in Orders(dirs), files_order \in Orders(files) :
              LET denied == {i \in 1..Len(files_order) : tree[files_order[i]].stat = "denied"}
                  last == IF denied = {} THEN Len(files_order)
                          ELSE (CHOOSE i \in denied : \A j \in denied : i <= j) - 1
              IN  /\ file_data' = file_data \o
                                     SelectSeq(SubSeq(files_order, 1, last),
                                               LAMBDA a : tree[a].stat = "ok")
                  /\ walked' = Append(walked, root_path)
                  /\ IF denied = {}
                     THEN /\ pending' = dirs_order \o Tail(pending)
                          /\ walk_pc' = walk_pc
                     ELSE /\ pending' = pending
                          /\ walk_pc' = "raised"
    /\ UNCHANGED <<tree, exclude_folders, sorted_files, hierarchical_data, seen_dirs,
                   file_no, depth, tree_pc, baseVars, linkVars, execVars, recVars>>

\* line 99
WalkReturn ==
    /\ walk_pc = "walk"
    /\ pending = <<>>
    /\ walk_pc' = "returned"
    /\ UNCHANGED <<tree, exclude_folders, pending, walked, treeVars,
                   baseVars, linkVars, execVars, recVars>>

WalkNext == WalkDir \/ WalkReturn

SpecWalk == WalkInit /\ [][WalkNext]_vars

\* the files that can be reached from the root through folders none of
\* which is in the exclusion list
Reachable ==
    {a \in DOMAIN tree :
        /\ tree[a].kind = "file"
        /\ \A n \in (Len(dir_path) + 1)..(Len(a) - 1) : SubSeq(a, 1, n) \notin exclude_folders}

BasePathPool ==
    { <<<<"a">>, <<"b">>, <<"c">>, <<"f">>>>,
      <<<<"a">>, <<"b">>, <<"d">>, <<"f">>>>,
      <<<<"a">>, <<"b">>, <<"f">>>>,
      <<<<"a">>, <<"b", "c">>, <<"f">>>>,
      <<<<"e">>, <<"f">>>> }

BaseInputs == {None} \cup {Some(p) : p \in BasePathPool}

BaseInit ==
    /\ RecIdle
    /\ WalkIdle
    /\ ExecIdle
    /\ TreeIdle
    /\ LinkIdle
    /\ paths \in UNION {[1..n -> BaseInputs] : n \in 0..MaxPaths}
    /\ step2_base = NotRun
    /\ audit_base = NotRun

CallExtractBase ==
    /\ step2_base = NotRun
    /\ step2_base' = [raised |-> "", value |-> extract_base_directory(paths)]
    /\ UNCHANGED <<paths, audit_base, treeVars, linkVars, execVars,
                   recVars, walkVars>>

\* the audit script reads the 'File Path' column, which holds no None
CallFindCommonBase ==
    /\ audit_base = NotRun
    /\ \A i \in 1..Len(paths) : paths[i].some
    /\ audit_base' = find_common_base_directory(NotNone(paths))
    /\ UNCHANGED <<paths, step2_base, treeVars, linkVars, execVars,
                   recVars, walkVars>>

BaseNext == CallExtractBase \/ CallFindCommonBase

SpecBase == BaseInit /\ [][BaseNext]_vars

\* the deepest directory that is an ancestor of every path: the common part
\* of the paths' parent directories
RECURSIVE Parents(_)
Parents(ps) == IF ps = <<>> THEN <<>> ELSE <<Parent(ps[1])>> \o Parents(Tail(ps))

DeepestCommonDirectory(ps) ==
    IF NotNone(ps) = <<>> THEN None ELSE Some(commonpath(Parents(NotNone(ps))))

\* C9: each of the two functions returns the deepest directory that is an
\* ancestor, component by component, of every path it is given, and None
\* (without raising) when it is given no path.
C9_BaseIsDeepestCommonDirectory ==
    /\ step2_base # NotRun =>
           step2_base = [raised |-> "", value |-> DeepestCommonDirectory(paths)]
    /\ audit_base # NotRun =>
           audit_base = [raised |-> "", value |-> DeepestCommonDirectory(paths)]

=============================================================================
